---------------------------- MODULE Spec2Model ----------------------------
(***************************************************************************)
(* The element-wise TSDF kernels of open3d/core/kernel/GeneralEWCUDA.cu:   *)
(* CUDATSDFTouchKernel, CUDATSDFIntegrateKernel,                           *)
(* CUDASurfaceExtractionKernel, CUDAMarchingCubesKernel and the dispatch   *)
(* GeneralEWCUDA.  Each kernel has a specification of its own; all share   *)
(* the variables below, and a specification leaves the variables of the    *)
(* other kernels at their initial value.                                   *)
(*                                                                         *)
(* Numbers.  The kernels compute in `float'.  A finite float is modelled   *)
(* as an integer k standing for k / Scale (Scale = 2^FracBits), and is     *)
(* representable iff |k| = m * 2^j with m < 2^Precision: a binary format   *)
(* with Precision significant bits and gradual underflow at quantum        *)
(* 1/Scale.  Every arithmetic operation rounds to nearest, ties to even.   *)
(* binary32 is the same format with Precision = 24.  NaN and PosInf are    *)
(* the non-finite values.                                                  *)
(***************************************************************************)
EXTENDS Integers, Sequences, FiniteSets, TLC

(***************************************************************************)
(* Bounds of the model.                                                    *)
(***************************************************************************)
\* significant bits of the modelled float format (binary32: 24)
Precision == 4
\* fractional bits of the fixed-point encoding: Scale = 2^FracBits
FracBits == 4
\* number of input points of one TSDFTouch call
MaxPoints == 2

(***************************************************************************)
(* Float arithmetic.                                                       *)
(***************************************************************************)
RECURSIVE Pow2(_)
Pow2(n) == IF n = 0 THEN 1 ELSE 2 * Pow2(n - 1)

Scale == Pow2(FracBits)

Abs(x) == IF x < 0 THEN -x ELSE x
Sgn(x) == IF x < 0 THEN -1 ELSE IF x > 0 THEN 1 ELSE 0
Min(a, b) == IF a < b THEN a ELSE b

\* the non-finite floats
NaN == 1000000
PosInf == NaN + 1
NegInf == NaN + 2
IsFinite(x) == x < NaN

\* significands are below 2^Precision
MantLimit == Pow2(Precision)

\* the spacing 2^j of the floats around num/den >= 0
RECURSIVE Quantum(_, _, _)
Quantum(num, den, q) ==
    IF num < MantLimit * q * den THEN q ELSE Quantum(num, den, 2 * q)

\* num/den >= 0 rounded to the nearest integer, ties to even
RNE(num, den) ==
    LET fl == num \div den
        r2 == 2 * (num % den)
    IN  IF r2 > den \/ (r2 = den /\ fl % 2 = 1) THEN fl + 1 ELSE fl

\* the float nearest to the rational num/den (den # 0), in units of 1/Scale
FRound(num, den) ==
    IF num = 0 THEN 0
    ELSE LET a == Abs(num)
             d == Abs(den)
             q == Quantum(a, d, 1)
         IN  Sgn(num) * Sgn(den) * RNE(a, d * q) * q

\* the sign of a float: -1, 0, 1 (NaN has none)
FSgn(a) == IF a = PosInf THEN 1 ELSE IF a = NegInf THEN -1 ELSE Sgn(a)

\* float -a
FNeg(a) ==
    IF a = NaN THEN NaN
    ELSE IF a = PosInf THEN NegInf
    ELSE IF a = NegInf THEN PosInf
    ELSE -a

\* float a + b
FAdd(a, b) ==
    IF a = NaN \/ b = NaN THEN NaN
    ELSE IF ~IsFinite(a) /\ ~IsFinite(b) THEN (IF a = b THEN a ELSE NaN)
    ELSE IF ~IsFinite(a) THEN a
    ELSE IF ~IsFinite(b) THEN b
    ELSE FRound(a + b, 1)

\* float a - b
FSub(a, b) == FAdd(a, FNeg(b))

\* float a * b
FMul(a, b) ==
    IF a = NaN \/ b = NaN THEN NaN
    ELSE IF IsFinite(a) /\ IsFinite(b) THEN FRound(a * b, Scale)
    ELSE IF FSgn(a) * FSgn(b) = 0 THEN NaN
    ELSE IF FSgn(a) * FSgn(b) > 0 THEN PosInf
    ELSE NegInf

\* float a / b
FDiv(a, b) ==
    IF a = NaN \/ b = NaN THEN NaN
    ELSE IF ~IsFinite(a) /\ ~IsFinite(b) THEN NaN
    ELSE IF ~IsFinite(b) THEN 0
    ELSE IF ~IsFinite(a)
         THEN (IF FSgn(a) * (IF b < 0 THEN -1 ELSE 1) > 0 THEN PosInf ELSE NegInf)
    ELSE IF b = 0
         THEN (IF a = 0 THEN NaN ELSE IF a > 0 THEN PosInf ELSE NegInf)
    ELSE FRound(a * Scale, b)

\* float comparison a < b: false when either side is NaN
FLess(a, b) ==
    IF a = NaN \/ b = NaN THEN FALSE
    ELSE IF a = b THEN FALSE
    ELSE IF a = NegInf \/ b = PosInf THEN TRUE
    ELSE IF a = PosInf \/ b = NegInf THEN FALSE
    ELSE a < b

\* float comparison a <= b: false when either side is NaN
FLeq(a, b) == a # NaN /\ b # NaN /\ (a = b \/ FLess(a, b))

\* the float of an integer n
FInt(n) == FRound(n * Scale, 1)

\* static_cast<int64_t>(float) and Tensor::To(Int64): truncation toward zero
ToInt64(a) == Sgn(a) * (Abs(a) \div Scale)

\* C++ integer division and remainder (truncating)
CDiv(a, b) == Sgn(a) * Sgn(b) * (Abs(a) \div Abs(b))
CMod(a, b) == a - b * CDiv(a, b)

VARIABLES
    t_pc,       \* TSDFTouch: "ready" | "done"
    t_in,       \* TSDFTouch: srcs (points, voxel_size, resolution)
    t_out,      \* TSDFTouch: block_coordi, block_masks and dsts["block_coords"]
    d_pc,       \* GeneralEWCUDA: "ready" | "done"
    d_in,       \* GeneralEWCUDA: op_code and the keys of srcs and dsts
    d_out,      \* GeneralEWCUDA: how the call ended, and the keys of dsts
    block_values, \* the block pool: cell -> [tsdf, weight], cells in buffer order
    i_pool0,    \* TSDFIntegrate: the pool before the first call
    i_n,        \* TSDFIntegrate: number of calls made
    i_last,     \* TSDFIntegrate: srcs of the latest call
    i_same,     \* TSDFIntegrate: every call so far had the srcs i_last
    l_in,       \* one launch of TSDFIntegrate: an index of Launches
    l_pool0,    \* one launch: the pool when the kernel was launched
    l_pc,       \* one launch: workload -> "start" | "loaded" | "done"
    l_loc,      \* one launch: workload -> its locals tsdf_sum, weight_sum
    e_in,       \* SurfaceExtraction: the call under way, an index of ExtractCalls
    e_pc,       \* SurfaceExtraction: workload -> the axis i its loop is at
    e_count,    \* SurfaceExtraction: *count_ptr
    e_points,   \* SurfaceExtraction: the rows written through points_ptr
    e_ret,      \* SurfaceExtraction: how the call ended, rows of dsts["points"]
    m_in,       \* MarchingCubes: the call under way, an index of MCCalls
    m_pc,       \* MarchingCubes: workload -> where it is in the running pass
    mesh_structure, \* MarchingCubes: dsts["mesh_structure"], [K][R][R][R][4]
    m_count,    \* MarchingCubes: *count_ptr
    m_vertices, \* MarchingCubes: the rows written through vertices_ptr
    m_ret       \* MarchingCubes: the pass running or how the call ended, rows

vars == <<t_pc, t_in, t_out, d_pc, d_in, d_out,
          block_values, i_pool0, i_n, i_last, i_same,
          l_in, l_pool0, l_pc, l_loc,
          e_in, e_pc, e_count, e_points, e_ret,
          m_in, m_pc, mesh_structure, m_count, m_vertices, m_ret>>

(***************************************************************************)
(* Tensors are functions on 0 .. n-1; a row of 3 is a tuple <<x, y, z>>.   *)
(***************************************************************************)
Rows(n) == 0 .. (n - 1)
NumRows(t) == Cardinality(DOMAIN t)

\* the elements of a finite set, in some fixed order
RECURSIVE Enumerate(_)
Enumerate(S) ==
    IF S = {} THEN <<>>
    ELSE LET x == CHOOSE x \in S : TRUE IN <<x>> \o Enumerate(S \ {x})

(***************************************************************************)
(* CUDATSDFTouchKernel                                                     *)
(***************************************************************************)
\* coordinates of the input points: -1.5, -0.5, 0 and 1.5
TouchCoord == {-(3 * Scale) \div 2, -Scale \div 2, 0, (3 * Scale) \div 2}
TouchPoint ==
    {<<x, y, z>> : x \in TouchCoord, y \in {-Scale \div 2, 0},
                   z \in {0, (3 * Scale) \div 2}}
TouchInput ==
    UNION {[points : [Rows(n) -> TouchPoint],
            voxel_size : {Scale \div 2, Scale},
            resolution : {2}] : n \in 1 .. MaxPoints}

\* float block_size = voxel_size * resolution
block_size(in) == FMul(in.voxel_size, FInt(in.resolution))

\* block_coordd = pcd / block_size
block_coordd(in) ==
    [i \in DOMAIN in.points |->
        [c \in 1 .. 3 |-> FDiv(in.points[i][c], block_size(in))]]

\* block_coordi = block_coordd.To(Int64)
block_coordi(in) ==
    [i \in DOMAIN in.points |->
        [c \in 1 .. 3 |-> ToInt64(block_coordd(in)[i][c])]]

\* Hashmap::Activate: of the rows holding one key, exactly one gets mask true
Activate(keys) ==
    {m \in [DOMAIN keys -> BOOLEAN] :
        \A i \in DOMAIN keys :
            Cardinality({j \in DOMAIN keys : keys[j] = keys[i] /\ m[j]}) = 1}

\* Tensor::IndexGet({mask}): the rows with mask true, in their order
IndexGet(t, mask) ==
    LET kept == {i \in DOMAIN t : mask[i]}
        rank(i) == Cardinality({j \in kept : j < i})
    IN  [r \in Rows(Cardinality(kept)) |->
            t[CHOOSE i \in kept : rank(i) = r]]

\* NbShift with dy taken as nb / 3, the modulus by 9 forgotten
NbShiftNoMod(nb) ==
    LET dz == nb \div 9
        dy == nb \div 3
        dx == nb % 3
    IN  <<dx - 1, dy - 1, dz - 1>>

\* dt of neighbour nb: {dx - 1, dy - 1, dz - 1}
NbShift(nb) ==
    LET dz == nb \div 9
        dy == (nb % 9) \div 3
        dx == nb % 3
    IN  <<dx - 1, dy - 1, dz - 1>>

\* block_nb_coords[nb] = block_coords + dt, for nb in [0, 27)
block_nb_coords(block_coords) ==
    [nb \in Rows(27) |->
        [j \in DOMAIN block_coords |->
            [c \in 1 .. 3 |-> block_coords[j][c] + NbShift(nb)[c]]]]

\* Tensor::View({27 * block_count, 3}) of a contiguous {27, block_count, 3}
View27(t, block_count) ==
    [r \in Rows(27 * block_count) |-> t[r \div block_count][r % block_count]]

TouchInit ==
    /\ t_pc = "ready"
    /\ t_in \in TouchInput
    /\ t_out = [block_coordi |-> <<>>, block_masks |-> <<>>,
                block_coords |-> <<>>]

TSDFTouch ==
    /\ t_pc = "ready"
    /\ \E block_masks \in Activate(block_coordi(t_in)) :
          LET block_coords == IndexGet(block_coordi(t_in), block_masks)
              block_count == NumRows(block_coords)
          IN  t_out' = [block_coordi |-> block_coordi(t_in),
                        block_masks |-> block_masks,
                        block_coords |->
                            View27(block_nb_coords(block_coords), block_count)]
    /\ t_pc' = "done"
    /\ UNCHANGED t_in

(***************************************************************************)
(* GeneralEWCUDA: the dispatch and the key checks of the five kernels      *)
(***************************************************************************)
\* keys that may be missing from srcs in one modelled call
MaxMissing == 2

OpCode == {"Unproject", "TSDFTouch", "TSDFIntegrate", "TSDFSurfaceExtraction",
           "MarchingCubes", "RayCasting", "Debug"}

\* static std::vector<std::string> src_attrs of each kernel
src_attrs(op) ==
    CASE op = "Unproject" ->
            <<"depth", "intrinsics", "depth_scale", "depth_max">>
      [] op = "TSDFTouch" -> <<"points", "voxel_size", "resolution">>
      [] op = "TSDFIntegrate" ->
            <<"depth", "indices", "block_keys", "intrinsics", "extrinsics",
              "resolution", "voxel_size", "sdf_trunc", "depth_scale">>
      [] op = "TSDFSurfaceExtraction" ->
            <<"indices", "nb_indices", "nb_masks", "block_keys",
              "block_values", "voxel_size", "resolution">>
      [] op = "MarchingCubes" ->
            <<"indices", "inv_indices", "nb_indices", "nb_masks",
              "block_keys", "block_values", "voxel_size", "resolution">>
      [] OTHER -> <<>>

\* the kernel name each key check puts in brackets in front of its message
LogTag(op) ==
    CASE op = "Unproject" -> "CUDAUnprojectKernel"
      [] op = "TSDFTouch" -> "CUDATSDFTouchKernel"
      [] op = "TSDFIntegrate" -> "CUDATSDFIntegrateKernel"
      [] op = "TSDFSurfaceExtraction" -> "CPUTSDFIntegrateKernel"
      [] op = "MarchingCubes" -> "CUDAMarchingCubesKernel"
      [] OTHER -> ""

\* the key of dsts each kernel reads, and how it reads it
dst_attr(op) ==
    CASE op = "TSDFIntegrate" -> "block_values"
      [] op = "MarchingCubes" -> "mesh_structure"
      [] OTHER -> ""

\* the keys each kernel emplaces into dsts
Produced(op) ==
    CASE op = "Unproject" -> {"vertex_map"}
      [] op = "TSDFTouch" -> {"block_coords"}
      [] op = "TSDFSurfaceExtraction" -> {"points"}
      [] op = "MarchingCubes" -> {"vertices", "normals"}
      [] OTHER -> {}

SeqRange(q) == {q[i] : i \in 1 .. Len(q)}

\* for (auto& k : src_attrs) if (srcs.count(k) == 0) LogError(...): the first
\* missing key, 0 when there is none
FirstMissing(attrs, srcs) ==
    IF \A i \in 1 .. Len(attrs) : attrs[i] \in srcs THEN 0
    ELSE CHOOSE i \in 1 .. Len(attrs) :
            /\ attrs[i] \notin srcs
            /\ \A j \in 1 .. (i - 1) : attrs[j] \in srcs

NoResult == [kind |-> "none", tag |-> "", key |-> "", dsts |-> {}]

\* one kernel call: the key check, then the reads of dsts, then the body
KernelResult(op, srcs, dsts) ==
    LET m == FirstMissing(src_attrs(op), srcs)
    IN  IF m # 0
        THEN \* utility::LogError("[<kernel>] expected Tensor {} in srcs ...", k)
             [kind |-> "LogError", tag |-> LogTag(op),
              key |-> src_attrs(op)[m], dsts |-> dsts]
        ELSE IF op = "TSDFIntegrate" /\ dst_attr(op) \notin dsts
        THEN \* dsts.at("block_values") throws std::out_of_range
             [kind |-> "out_of_range", tag |-> "", key |-> "", dsts |-> dsts]
        ELSE IF op = "MarchingCubes" /\ dst_attr(op) \notin dsts
        THEN \* LogError("[CUDAMarchingCubesKernel] expected Tensor
             \* mesh_structure in srcs, but did not receive")
             [kind |-> "LogError", tag |-> LogTag(op),
              key |-> dst_attr(op), dsts |-> dsts]
        ELSE [kind |-> "ok", tag |-> "", key |-> "",
              dsts |-> dsts \cup Produced(op)]

DispatchInput ==
    UNION {[op : {op},
            srcs : {SeqRange(src_attrs(op)) \ X :
                      X \in {Y \in SUBSET SeqRange(src_attrs(op)) :
                                Cardinality(Y) <= MaxMissing}},
            dsts : SUBSET {"block_values", "mesh_structure"}] : op \in OpCode}

DispatchInit ==
    /\ d_pc = "ready"
    /\ d_in \in DispatchInput
    /\ d_out = NoResult

\* switch (op_code): the five kernels; RayCasting, Debug and default do nothing
GeneralEWCUDA ==
    /\ d_pc = "ready"
    /\ d_out' = IF d_in.op \in {"RayCasting", "Debug"}
                THEN [kind |-> "ok", tag |-> "", key |-> "", dsts |-> d_in.dsts]
                ELSE KernelResult(d_in.op, d_in.srcs, d_in.dsts)
    /\ d_pc' = "done"
    /\ UNCHANGED d_in

(***************************************************************************)
(* The block pool and the indexers                                         *)
(***************************************************************************)
\* srcs.at("resolution"): voxels per block edge
resolution == 2
resolution3 == resolution * resolution * resolution
\* block_values.GetShape()[0]: blocks of the pool
NumBlocks == 2
\* block_keys: block b of the pool lies at block coordinate (b, 0, 0)
block_keys == [b \in Rows(NumBlocks) |-> <<b, 0, 0>>]
\* depth.GetShape(): the image is ImageH rows of ImageW pixels
ImageW == 2
ImageH == 1

One == FInt(1)
Cells == Rows(NumBlocks * resolution3)

\* NDArrayIndexer({resolution, resolution, resolution}).WorkloadToCoord
WorkloadToCoord(voxel_idx) ==
    <<voxel_idx % resolution,
      (voxel_idx \div resolution) % resolution,
      voxel_idx \div (resolution * resolution)>>

\* NDArrayIndexer(block_values, 4).CoordToWorkload(xv, yv, zv, block_idx)
CoordToWorkload(xv, yv, zv, block_idx) ==
    ((block_idx * resolution + zv) * resolution + yv) * resolution + xv

\* NDArrayIndexer(depth, 2).CoordToWorkload(u, v)
ImageCoordToWorkload(u, v) == v * ImageW + u

\* NDArrayIndexer(depth, 2).InBoundary(u, v)
InBoundary(u, v) ==
    /\ IsFinite(u) /\ IsFinite(v)
    /\ 0 <= u /\ ToInt64(u) < ImageW
    /\ 0 <= v /\ ToInt64(v) < ImageH

\* TransformIndexer(intrinsics, extrinsics, voxel_size).RigidTransform: the
\* rotation of the modelled poses is the identity, t their translation
RigidTransform(in, x, y, z) ==
    <<FAdd(FMul(FInt(x), in.voxel_size), in.extrinsics[1]),
      FAdd(FMul(FInt(y), in.voxel_size), in.extrinsics[2]),
      FAdd(FMul(FInt(z), in.voxel_size), in.extrinsics[3])>>

\* TransformIndexer.Project: u = fx * xc / zc + cx, v = fy * yc / zc + cy
Project(in, xc, yc, zc) ==
    <<FAdd(FMul(in.intrinsics.fx, FDiv(xc, zc)), in.intrinsics.cx),
      FAdd(FMul(in.intrinsics.fy, FDiv(yc, zc)), in.intrinsics.cy)>>

(***************************************************************************)
(* CUDATSDFIntegrateKernel                                                 *)
(***************************************************************************)
\* calls of TSDFIntegrate in one behaviour
MaxCalls == 3

\* sdf = sdf < sdf_trunc ? sdf : sdf_trunc
ClampSdf(sdf, sdf_trunc) == IF FLess(sdf, sdf_trunc) THEN sdf ELSE sdf_trunc

\* int64_t block_idx = indices_ptr[workload_idx / resolution3]
BlockIdx(indices, workload_idx) == indices[workload_idx \div resolution3]

\* VoxelIdx with the modulus taken by resolution instead of resolution3
VoxelIdxWrongModulus(workload_idx) == workload_idx % resolution

\* int64_t voxel_idx = workload_idx % resolution3
VoxelIdx(workload_idx) == workload_idx % resolution3

\* Discard without the test of the depth sample
DiscardAnyDepth(depth, zc, sdf, sdf_trunc) ==
    FLeq(zc, 0) \/ FLess(sdf, FNeg(sdf_trunc))

\* if (depth <= 0 || zc <= 0 || sdf < -sdf_trunc) return
Discard(depth, zc, sdf, sdf_trunc) ==
    FLeq(depth, 0) \/ FLeq(zc, 0) \/ FLess(sdf, FNeg(sdf_trunc))

\* one workload up to the load of the voxel: whether it returns early, the
\* cell it addresses and the normalised sdf it integrates
IntegrateWorkload(in, workload_idx) ==
    LET block_idx == BlockIdx(in.indices, workload_idx)
        voxel_idx == VoxelIdx(workload_idx)
        xb == block_keys[block_idx][1]
        yb == block_keys[block_idx][2]
        zb == block_keys[block_idx][3]
        cv == WorkloadToCoord(voxel_idx)
        x == xb * resolution + cv[1]
        y == yb * resolution + cv[2]
        z == zb * resolution + cv[3]
        cam == RigidTransform(in, x, y, z)
        zc == cam[3]
        uv == Project(in, cam[1], cam[2], zc)
        out_of_image == ~InBoundary(uv[1], uv[2])
        workload_image == ImageCoordToWorkload(ToInt64(uv[1]), ToInt64(uv[2]))
        depth == FDiv(in.depth[workload_image], in.depth_scale)
        sdf == FSub(depth, zc)
        discard == Discard(depth, zc, sdf, in.sdf_trunc)
    IN  IF out_of_image
        THEN [ret |-> TRUE, workload_voxel |-> 0, sdf |-> 0]
        ELSE IF discard
        THEN [ret |-> TRUE, workload_voxel |-> 0, sdf |-> 0]
        ELSE [ret |-> FALSE,
              workload_voxel |-> CoordToWorkload(cv[1], cv[2], cv[3], block_idx),
              sdf |-> FDiv(ClampSdf(sdf, in.sdf_trunc), in.sdf_trunc)]

\* UpdateVoxel keeping the weighted sum, the division left out
UpdateVoxelSum(tsdf_sum, weight_sum, sdf) ==
    [tsdf |-> FAdd(FMul(weight_sum, tsdf_sum), sdf),
     weight |-> FAdd(weight_sum, One)]

\* voxel_ptr[0] = (weight_sum * tsdf_sum + sdf) / (weight_sum + 1);
\* voxel_ptr[1] = weight_sum + 1
UpdateVoxel(tsdf_sum, weight_sum, sdf) ==
    [tsdf |-> FDiv(FAdd(FMul(weight_sum, tsdf_sum), sdf), FAdd(weight_sum, One)),
     weight |-> FAdd(weight_sum, One)]

\* int64_t n = indices.GetShape()[0] * resolution3
IntegrateN(in) == NumRows(in.indices) * resolution3

\* the part of the workloads workload_idx .. n - 1 of a launch that reads no
\* voxel, as the sequence of their results
RECURSIVE Workloads(_, _)
Workloads(in, workload_idx) ==
    IF workload_idx >= IntegrateN(in) THEN <<>>
    ELSE <<IntegrateWorkload(in, workload_idx)>> \o Workloads(in, workload_idx + 1)

\* the workloads workload_idx .. n - 1 of one launch, one after another
RECURSIVE LaunchIntegrate(_, _, _, _)
LaunchIntegrate(bv, wl, workload_idx, n) ==
    IF workload_idx >= n THEN bv
    ELSE LET r == wl[workload_idx + 1]
             c == r.workload_voxel
         IN  LaunchIntegrate(
                 IF r.ret THEN bv
                 ELSE [bv EXCEPT ![c] = UpdateVoxel(bv[c].tsdf, bv[c].weight, r.sdf)],
                 wl, workload_idx + 1, n)

\* the depth frames, poses and selections of the modelled calls
Frames ==
    {[w \in Rows(ImageW * ImageH) |-> f[w + 1]] :
        f \in {<<(15 * Scale) \div 8, Scale>>,
               <<Scale \div 2, 3 * Scale>>,
               <<NaN, PosInf>>,
               <<0, 0>>}}
Poses == {<<0, 0, Scale>>, <<-Scale, 0, Scale>>, <<0, 0, -Scale>>}
Selections ==
    {[k \in Rows(Len(q)) |-> q[k + 1]] : q \in {<<0>>, <<1>>, <<1, 0>>}}
IntegrateInput ==
    [depth : Frames, indices : Selections, extrinsics : Poses,
     intrinsics : {[fx |-> Scale, fy |-> Scale, cx |-> 0, cy |-> 0]},
     voxel_size : {Scale}, sdf_trunc : {Scale}, depth_scale : {Scale}]

\* a pool no frame was integrated into: weight 0, tsdf whatever the buffer held
FreshPool == {[c \in Cells |-> [tsdf |-> fill, weight |-> 0]] :
                 fill \in {0, 3 * Scale, NaN, PosInf}}

\* the launches of the modelled calls, by their srcs
IntegrateLaunches ==
    {[srcs |-> in, workloads |-> Workloads(in, 0)] : in \in IntegrateInput}

NoInput == [depth |-> <<>>, indices |-> <<>>, extrinsics |-> <<0, 0, 0>>,
            intrinsics |-> [fx |-> Scale, fy |-> Scale, cx |-> 0, cy |-> 0],
            voxel_size |-> Scale, sdf_trunc |-> Scale, depth_scale |-> Scale]

IntegrateInit ==
    /\ block_values \in FreshPool
    /\ i_pool0 = block_values
    /\ i_n = 0
    /\ i_last = NoInput
    /\ i_same = TRUE

\* one call of the kernel: the launch of n workloads
TSDFIntegrate ==
    /\ i_n < MaxCalls
    /\ \E l \in IntegrateLaunches :
          /\ block_values' = LaunchIntegrate(block_values, l.workloads,
                                             0, Len(l.workloads))
          /\ i_last' = l.srcs
          /\ i_same' = (i_same /\ (i_n = 0 \/ l.srcs = i_last))
    /\ i_n' = i_n + 1
    /\ UNCHANGED i_pool0

IntegrateIdle ==
    /\ block_values = [c \in Cells |-> [tsdf |-> 0, weight |-> 0]]
    /\ i_pool0 = block_values
    /\ i_n = 0
    /\ i_last = NoInput
    /\ i_same = TRUE

(***************************************************************************)
(* One launch of CUDATSDFIntegrateKernel, workload by workload: every      *)
(* workload first loads its voxel (or returns), later stores it; the       *)
(* workloads of the launch interleave freely.                              *)
(***************************************************************************)
\* the launches followed workload by workload
LaunchInput ==
    {in \in [depth : {[w \in Rows(ImageW * ImageH) |-> Scale \div 2],
                      [w \in Rows(ImageW * ImageH) |->
                          IF w = 0 THEN (15 * Scale) \div 8 ELSE Scale]},
             indices : Selections, extrinsics : Poses,
             intrinsics : {[fx |-> Scale, fy |-> Scale, cx |-> 0, cy |-> 0]},
             voxel_size : {Scale}, sdf_trunc : {Scale}, depth_scale : {Scale}] :
        \/ /\ NumRows(in.indices) = 2
           /\ in.depth[0] = in.depth[1]
           /\ in.extrinsics = <<-Scale, 0, Scale>>
        \/ /\ NumRows(in.indices) = 1
           /\ in.depth[0] # in.depth[1]
           /\ in.extrinsics = <<0, 0, Scale>>}

\* the pool at the launch: fresh, or every voxel observed once before
LaunchPool ==
    {[c \in Cells |-> [tsdf |-> 0, weight |-> 0]],
     [c \in Cells |-> [tsdf |-> -(Scale \div 2), weight |-> One]]}

\* the modelled launches: their srcs, and their workloads
Launches ==
    Enumerate({[srcs |-> in, workloads |-> Workloads(in, 0)] :
                  in \in LaunchInput})

\* the launch under way
Launch == Launches[l_in]

LaunchInit ==
    /\ l_in \in DOMAIN Launches
    /\ l_pc = [w \in Rows(IntegrateN(Launch.srcs)) |-> "start"]
    /\ l_loc = [w \in Rows(IntegrateN(Launch.srcs)) |->
                   [tsdf_sum |-> 0, weight_sum |-> 0]]
    /\ block_values \in LaunchPool
    /\ NumRows(Launch.srcs.indices) = NumBlocks => block_values[0].weight = One
    /\ l_pool0 = block_values

\* lines 201-256 of workload w: the early returns, else the loads of
\* voxel_ptr[0] and voxel_ptr[1]
Load(w) ==
    /\ l_pc[w] = "start"
    /\ LET r == Launch.workloads[w + 1]
       IN  IF r.ret
           THEN /\ l_pc' = [l_pc EXCEPT ![w] = "done"]
                /\ UNCHANGED l_loc
           ELSE /\ l_pc' = [l_pc EXCEPT ![w] = "loaded"]
                /\ l_loc' = [l_loc EXCEPT ![w] =
                       [tsdf_sum |-> block_values[r.workload_voxel].tsdf,
                        weight_sum |-> block_values[r.workload_voxel].weight]]
    /\ UNCHANGED <<block_values, l_in, l_pool0>>

\* lines 257-258 of workload w: the stores to voxel_ptr[0] and voxel_ptr[1]
Store(w) ==
    /\ l_pc[w] = "loaded"
    /\ LET r == Launch.workloads[w + 1]
       IN  block_values' = [block_values EXCEPT ![r.workload_voxel] =
               UpdateVoxel(l_loc[w].tsdf_sum, l_loc[w].weight_sum, r.sdf)]
    /\ l_pc' = [l_pc EXCEPT ![w] = "done"]
    /\ UNCHANGED <<l_in, l_loc, l_pool0>>

LaunchIdle ==
    /\ l_in = 0
    /\ l_pool0 = <<>>
    /\ l_pc = <<>>
    /\ l_loc = <<>>

(***************************************************************************)
(* CUDASurfaceExtractionKernel                                             *)
(***************************************************************************)
\* rows of the points buffer at most: 10000000 at line 310, scaled down to
\* the modelled pools
MaxRows == 3

\* the pool block of a key, -1 when the pool has none
BlockOfKey(key) ==
    IF \E b \in Rows(NumBlocks) : block_keys[b] = key
    THEN CHOOSE b \in Rows(NumBlocks) : block_keys[b] = key
    ELSE -1

\* nb = (dx + 1) + 3 (dy + 1) + 9 (dz + 1)
NbOf(d) == (d[1] + 1) + 3 * (d[2] + 1) + 9 * (d[3] + 1)

KeyPlus(key, d) == <<key[1] + d[1], key[2] + d[2], key[3] + d[3]>>

\* nb_masks [27][K], flat: true iff the neighbour is in the pool and not in
\* the set unallocated
NbMasks(indices, unallocated) ==
    LET K == NumRows(indices)
    IN  [j \in Rows(27 * K) |->
            LET b == BlockOfKey(KeyPlus(block_keys[indices[j % K]],
                                        NbShift(j \div K)))
            IN  b # -1 /\ b \notin unallocated]

\* nb_indices [27][K], flat: the pool block of the neighbour, 0 where the
\* pool has none
NbIndices(indices) ==
    LET K == NumRows(indices)
    IN  [j \in Rows(27 * K) |->
            LET b == BlockOfKey(KeyPlus(block_keys[indices[j % K]],
                                        NbShift(j \div K)))
            IN  IF b = -1 THEN 0 ELSE b]

\* the cell of the voxel at world voxel coordinate (x, y, z)
WorldCell(x, y, z) ==
    CoordToWorkload(x % resolution, y % resolution, z % resolution,
                    BlockOfKey(<<x \div resolution, y \div resolution,
                                 z \div resolution>>))

\* a pool that is unobserved except at the listed voxels
SparsePool(voxels) ==
    [c \in Cells |->
        IF \E v \in voxels : WorldCell(v[1], v[2], v[3]) = c
        THEN LET v == CHOOSE v \in voxels : WorldCell(v[1], v[2], v[3]) = c
             IN  [tsdf |-> v[4], weight |-> v[5]]
        ELSE [tsdf |-> 0, weight |-> 0]]

\* four sign changes around the origin voxel, one of them across the seam
DensePool ==
    SparsePool({<<0, 0, 0, -(Scale \div 2), One>>,
                <<1, 0, 0, Scale \div 2, One>>,
                <<0, 1, 0, Scale \div 2, 2 * Scale>>,
                <<0, 0, 1, Scale \div 2, One>>,
                <<2, 0, 0, -(Scale \div 4), One>>})

\* one sign change, across the seam between block 0 and block 1
SeamPool ==
    SparsePool({<<1, 0, 0, -(Scale \div 4), One>>,
                <<2, 0, 0, (3 * Scale) \div 4, 2 * Scale>>})

\* no qualifying pair: an unobserved neighbour of opposite sign, a NaN, a
\* zero, an equal sign, an unobserved origin
GuardedPool ==
    SparsePool({<<0, 0, 0, -(Scale \div 2), One>>,
                <<1, 0, 0, Scale \div 2, 0>>,
                <<0, 1, 0, NaN, One>>,
                <<0, 0, 1, -(Scale \div 2), One>>,
                <<1, 0, 1, 0, One>>,
                <<2, 0, 0, -Scale, One>>})

\* two sign changes along x, at two origin voxels of block 0
TwoEdgePool ==
    SparsePool({<<0, 0, 0, -(Scale \div 4), One>>,
                <<1, 0, 0, (3 * Scale) \div 4, One>>,
                <<0, 1, 0, -(Scale \div 2), One>>,
                <<1, 1, 0, Scale \div 2, One>>})

\* all voxels of block 0 observed, tsdf < 0 at the listed voxels only
CubePool(negative, tsdf_far, weight_far) ==
    [c \in Cells |->
        IF c \in negative THEN [tsdf |-> -(Scale \div 4), weight |-> One]
        ELSE IF c = resolution3 - 1
        THEN [tsdf |-> tsdf_far, weight |-> weight_far]
        ELSE [tsdf |-> (3 * Scale) \div 4, weight |-> One]]

ExtractInput ==
    {[indices |-> sel, nb_indices |-> NbIndices(sel),
      nb_masks |-> NbMasks(sel, un), block_values |-> pool,
      voxel_size |-> Scale \div 2] :
        sel \in {s \in Selections : NumRows(s) = 1},
        un \in {{}, {1}},
        pool \in {DensePool, SeamPool, GuardedPool, TwoEdgePool}}
    \cup
    {[indices |-> sel, nb_indices |-> NbIndices(sel),
      nb_masks |-> NbMasks(sel, {}), block_values |-> SeamPool,
      voxel_size |-> Scale \div 2] :
        sel \in {s \in Selections : NumRows(s) = NumBlocks}}

\* int64_t n = n_blocks * resolution3
ExtractN(in) == NumRows(in.indices) * resolution3

\* points({std::min(n * 3, int64_t(10000000)), 3}, ...)
Capacity(in) == Min(ExtractN(in) * 3, MaxRows)

\* lines 318-343 of a workload: the origin voxel
ExtractOrigin(in, workload_idx) ==
    LET workload_block_idx == workload_idx \div resolution3
        block_idx == in.indices[workload_block_idx]
        voxel_idx == workload_idx % resolution3
        cv == WorkloadToCoord(voxel_idx)
        workload_voxel == CoordToWorkload(cv[1], cv[2], cv[3], block_idx)
    IN  [workload_block_idx |-> workload_block_idx,
         xv |-> cv[1], yv |-> cv[2], zv |-> cv[3],
         tsdf_o |-> in.block_values[workload_voxel].tsdf,
         weight_o |-> in.block_values[workload_voxel].weight,
         x |-> block_keys[block_idx][1] * resolution + cv[1],
         y |-> block_keys[block_idx][2] * resolution + cv[2],
         z |-> block_keys[block_idx][3] * resolution + cv[3]]

\* Crossing without the test of weight_i
CrossingAnyWeight(tsdf_o, tsdf_i, weight_i) ==
    FLess(FMul(tsdf_i, tsdf_o), 0)

\* weight_i > 0 && tsdf_i * tsdf_o < 0
Crossing(tsdf_o, tsdf_i, weight_i) ==
    FLess(0, weight_i) /\ FLess(FMul(tsdf_i, tsdf_o), 0)

\* lines 346-389: iteration i of the loop of a workload, whether it emits a
\* point and which
ExtractAxis(in, workload_idx, i) ==
    LET o == ExtractOrigin(in, workload_idx)
        n_blocks == NumRows(in.indices)
        xv_i == o.xv + (IF i = 0 THEN 1 ELSE 0)
        yv_i == o.yv + (IF i = 1 THEN 1 ELSE 0)
        zv_i == o.zv + (IF i = 2 THEN 1 ELSE 0)
        dxb == xv_i \div resolution
        dyb == yv_i \div resolution
        dzb == zv_i \div resolution
        nb_idx == (dxb + 1) + (dyb + 1) * 3 + (dzb + 1) * 9
        block_mask_i == in.nb_masks[nb_idx * n_blocks + o.workload_block_idx]
        block_idx_i == in.nb_indices[nb_idx * n_blocks + o.workload_block_idx]
        workload_voxel_i ==
            CoordToWorkload(xv_i - dxb * resolution, yv_i - dyb * resolution,
                            zv_i - dzb * resolution, block_idx_i)
        tsdf_i == in.block_values[workload_voxel_i].tsdf
        weight_i == in.block_values[workload_voxel_i].weight
        ratio == FDiv(tsdf_i, FSub(tsdf_i, o.tsdf_o))
        unit(j) == FInt(IF i = j THEN 1 ELSE 0)
    IN  IF ~block_mask_i THEN [emit |-> FALSE, point |-> <<>>]
        ELSE IF ~Crossing(o.tsdf_o, tsdf_i, weight_i)
        THEN [emit |-> FALSE, point |-> <<>>]
        ELSE [emit |-> TRUE,
              point |-> <<FMul(in.voxel_size,
                               FAdd(FInt(o.x), FMul(ratio, unit(0)))),
                          FMul(in.voxel_size,
                               FAdd(FInt(o.y), FMul(ratio, unit(1)))),
                          FMul(in.voxel_size,
                               FAdd(FInt(o.z), FMul(ratio, unit(2))))>>]

\* the workloads workload_idx .. n - 1 of a launch: whether the origin voxel
\* has weight_o == 0, and the three iterations of the loop
RECURSIVE ExtractWorkloads(_, _)
ExtractWorkloads(in, workload_idx) ==
    IF workload_idx >= ExtractN(in) THEN <<>>
    ELSE <<[unobserved |-> ExtractOrigin(in, workload_idx).weight_o = 0,
            axes |-> <<ExtractAxis(in, workload_idx, 0),
                       ExtractAxis(in, workload_idx, 1),
                       ExtractAxis(in, workload_idx, 2)>>]>>
         \o ExtractWorkloads(in, workload_idx + 1)

\* the modelled calls: their srcs, and their workloads
ExtractCalls ==
    Enumerate({[srcs |-> in, capacity |-> Capacity(in),
                workloads |-> ExtractWorkloads(in, 0)] : in \in ExtractInput})

\* the call under way
ExtractCall == ExtractCalls[e_in]

ExtractInit ==
    /\ e_in \in DOMAIN ExtractCalls
    /\ e_pc = [w \in Rows(ExtractN(ExtractCall.srcs)) |-> 0]
    /\ e_count = 0
    /\ e_points = <<>>
    /\ e_ret = [st |-> "running", rows |-> 0]

\* a workload at its origin voxel with weight_o == 0: return
ExtractSkip(w) ==
    /\ e_ret.st = "running"
    /\ e_pc[w] = 0
    /\ ExtractCall.workloads[w + 1].unobserved
    /\ e_pc' = [e_pc EXCEPT ![w] = 3]
    /\ UNCHANGED <<e_in, e_count, e_points, e_ret>>

\* ExtractStep with the counter read and incremented in two steps: the row
\* is the value another workload may have read as well
ExtractStepStale(w) ==
    /\ e_ret.st = "running"
    /\ e_pc[w] < 3
    /\ ~ExtractCall.workloads[w + 1].unobserved
    /\ LET r == ExtractCall.workloads[w + 1].axes[e_pc[w] + 1]
       IN  IF ~r.emit
           THEN /\ e_pc' = [e_pc EXCEPT ![w] = @ + 1]
                /\ UNCHANGED <<e_count, e_points, e_ret>>
           ELSE /\ e_count' = e_count + 1
                /\ \E idx \in {e_count, IF e_count > 0 THEN e_count - 1 ELSE 0} :
                      \/ /\ e_points' = Append(e_points,
                                [row |-> idx, point |-> r.point,
                                 workload_idx |-> w, i |-> e_pc[w]])
                         /\ e_pc' = [e_pc EXCEPT ![w] = @ + 1]
                         /\ UNCHANGED e_ret
                      \/ /\ idx >= ExtractCall.capacity
                         /\ e_ret' = [st |-> "fault", rows |-> 0]
                         /\ UNCHANGED <<e_pc, e_points>>
    /\ UNCHANGED e_in

\* iteration e_pc[w] of the loop of workload w: atomicAdd(count_ptr, 1) and
\* the three stores of row idx. A store past the buffer is undefined: it
\* lands behind the buffer or the launch faults.
ExtractStep(w) ==
    /\ e_ret.st = "running"
    /\ e_pc[w] < 3
    /\ ~ExtractCall.workloads[w + 1].unobserved
    /\ LET r == ExtractCall.workloads[w + 1].axes[e_pc[w] + 1]
           idx == e_count
       IN  IF ~r.emit
           THEN /\ e_pc' = [e_pc EXCEPT ![w] = @ + 1]
                /\ UNCHANGED <<e_count, e_points, e_ret>>
           ELSE /\ e_count' = e_count + 1
                /\ \/ /\ e_points' = Append(e_points,
                             [row |-> idx, point |-> r.point,
                              workload_idx |-> w, i |-> e_pc[w]])
                      /\ e_pc' = [e_pc EXCEPT ![w] = @ + 1]
                      /\ UNCHANGED e_ret
                   \/ /\ idx >= ExtractCall.capacity
                      /\ e_ret' = [st |-> "fault", rows |-> 0]
                      /\ UNCHANGED <<e_pc, e_points>>
    /\ UNCHANGED e_in

\* lines 393-394: total_count = count.Item<int>(); points.Slice(0, 0,
\* total_count). A slice past the last row of the buffer gives total_count
\* rows, the rows of the buffer, or an error.
ExtractReturn ==
    /\ e_ret.st = "running"
    /\ \A w \in DOMAIN e_pc : e_pc[w] = 3
    /\ LET total_count == e_count
       IN  \/ e_ret' = [st |-> "returned", rows |-> total_count]
           \/ /\ total_count > ExtractCall.capacity
              /\ e_ret' \in {[st |-> "returned", rows |-> ExtractCall.capacity],
                             [st |-> "slice_error", rows |-> 0]}
    /\ UNCHANGED <<e_in, e_pc, e_count, e_points>>

ExtractIdle ==
    /\ e_in = 0
    /\ e_pc = <<>>
    /\ e_count = 0
    /\ e_points = <<>>
    /\ e_ret = [st |-> "idle", rows |-> 0]

(***************************************************************************)
(* CUDAMarchingCubesKernel                                                 *)
(***************************************************************************)
\* rows of the vertices and normals buffers at most
MaxVertices == 10000000

\* vtx_shifts[8][3]: the corners of a cube
vtx_shifts ==
    <<<<0, 0, 0>>, <<1, 0, 0>>, <<1, 1, 0>>, <<0, 1, 0>>,
      <<0, 0, 1>>, <<1, 0, 1>>, <<1, 1, 1>>, <<0, 1, 1>>>>

\* edge_shifts[12][4]: the voxel owning an edge of a cube, and the axis
edge_shifts ==
    <<<<0, 0, 0, 0>>, <<1, 0, 0, 1>>, <<0, 1, 0, 0>>, <<0, 0, 0, 1>>,
      <<0, 0, 1, 0>>, <<1, 0, 1, 1>>, <<0, 1, 1, 0>>, <<0, 0, 1, 1>>,
      <<0, 0, 0, 2>>, <<1, 0, 0, 2>>, <<1, 1, 0, 2>>, <<0, 1, 0, 2>>>>

\* the two corners each edge of a cube joins
edge_corners ==
    <<<<0, 1>>, <<1, 2>>, <<2, 3>>, <<3, 0>>, <<4, 5>>, <<5, 6>>,
      <<6, 7>>, <<7, 4>>, <<0, 4>>, <<1, 5>>, <<2, 6>>, <<3, 7>>>>

\* bit i of a cube case
CornerBit(table_idx, i) == (table_idx \div Pow2(i)) % 2

\* edge_table[table_idx] as the set of its bits: the edges whose two corners
\* lie on different sides
edge_table(table_idx) ==
    {i \in Rows(12) :
        CornerBit(table_idx, edge_corners[i + 1][1]) #
        CornerBit(table_idx, edge_corners[i + 1][2])}

\* inv_indices [B]: the row of a block in indices, -1 for a block not in it
InvIndices(indices) ==
    [b \in Rows(NumBlocks) |->
        IF \E k \in DOMAIN indices : indices[k] = b
        THEN CHOOSE k \in DOMAIN indices : indices[k] = b
        ELSE -1]

\* the pools of the calls over block 0 with block 1 not allocated
CubePools ==
    {CubePool({0}, Scale \div 4, One),
     CubePool({}, -(Scale \div 4), One),
     CubePool({0}, 0, One),
     CubePool({0}, NaN, One),
     CubePool({resolution3 - 2}, NaN, One),
     CubePool({0}, Scale \div 4, 0),
     CubePool({}, Scale \div 4, One)}

\* both blocks allocated and observed, tsdf < 0 at one voxel only
SeamCubePool(negative) ==
    [c \in Cells |->
        IF c = negative THEN [tsdf |-> -(Scale \div 4), weight |-> One]
        ELSE [tsdf |-> (3 * Scale) \div 4, weight |-> One]]

\* mesh_structure as the caller hands it in: zeroed, left over from an
\* earlier call, or holding a -1
MeshZero(K) == [c \in Rows(K * resolution3) |-> <<0, 0, 0, 0>>]
MeshLeftOver(K) ==
    [c \in Rows(K * resolution3) |->
        IF c = 0 THEN <<1, 0, 2, 1>> ELSE IF c = 1 THEN <<3, 0, 0, 0>>
        ELSE <<0, 0, 0, 0>>]
MeshStale(K) ==
    [c \in Rows(K * resolution3) |->
        IF c = 1 THEN <<0, 0, -1, 0>> ELSE <<0, 0, 0, 0>>]

MCInput ==
    {[indices |-> sel, inv_indices |-> InvIndices(sel),
      nb_indices |-> NbIndices(sel), nb_masks |-> NbMasks(sel, {1}),
      block_values |-> pool, voxel_size |-> Scale \div 2,
      mesh_structure |-> mesh] :
        sel \in {s \in Selections : NumRows(s) = 1 /\ s[0] = 0},
        pool \in CubePools,
        mesh \in {MeshZero(1), MeshLeftOver(1), MeshStale(1)}}
    \cup
    {[indices |-> sel, inv_indices |-> InvIndices(sel),
      nb_indices |-> NbIndices(sel), nb_masks |-> NbMasks(sel, {}),
      block_values |-> SeamCubePool(resolution3),
      voxel_size |-> Scale \div 2,
      mesh_structure |-> MeshZero(NumBlocks)] :
        sel \in {s \in Selections : NumRows(s) = NumBlocks}}
    \cup
    {[indices |-> sel, inv_indices |-> InvIndices(sel),
      nb_indices |-> NbIndices(sel), nb_masks |-> NbMasks(sel, {}),
      block_values |-> SeamCubePool(resolution - 1),
      voxel_size |-> Scale \div 2,
      mesh_structure |-> mesh] :
        sel \in {s \in Selections : NumRows(s) = 1 /\ s[0] = 0},
        mesh \in {MeshZero(1), MeshLeftOver(1)}}

\* int64_t n = n_blocks * resolution3
MCN(in) == NumRows(in.indices) * resolution3

\* vertices({std::min(n * 3, int64_t(10000000)), 3}, ...)
VertexCapacity(in) == Min(MCN(in) * 3, MaxVertices)

\* lines 469-497: corner i of the cube of a workload
Corner(in, workload_idx, i) ==
    LET workload_block_idx == workload_idx \div resolution3
        cv == WorkloadToCoord(workload_idx % resolution3)
        n_blocks == NumRows(in.indices)
        xv_i == cv[1] + vtx_shifts[i + 1][1]
        yv_i == cv[2] + vtx_shifts[i + 1][2]
        zv_i == cv[3] + vtx_shifts[i + 1][3]
        dxb == xv_i \div resolution
        dyb == yv_i \div resolution
        dzb == zv_i \div resolution
        nb_idx == (dxb + 1) + (dyb + 1) * 3 + (dzb + 1) * 9
        block_mask_i == in.nb_masks[nb_idx * n_blocks + workload_block_idx]
        block_idx_i == in.nb_indices[nb_idx * n_blocks + workload_block_idx]
        workload_voxel_i ==
            CoordToWorkload(xv_i - dxb * resolution, yv_i - dyb * resolution,
                            zv_i - dzb * resolution, block_idx_i)
    IN  IF ~block_mask_i THEN [ret |-> TRUE, bit |-> 0]
        ELSE IF in.block_values[workload_voxel_i].weight = 0
        THEN [ret |-> TRUE, bit |-> 0]
        ELSE [ret |-> FALSE,
              bit |-> IF FLess(in.block_values[workload_voxel_i].tsdf, 0)
                      THEN Pow2(i) ELSE 0]

\* table_idx |= ((tsdf_i < 0) ? (1 << i) : 0) over the corners i .. 7
RECURSIVE TableIdx(_, _, _)
TableIdx(in, workload_idx, i) ==
    IF i >= 8 THEN 0
    ELSE Corner(in, workload_idx, i).bit + TableIdx(in, workload_idx, i + 1)

\* MeshOwnerRow without the inverse permutation
MeshOwnerRowNoInverse(in, block_idx_i) == block_idx_i

\* inv_indices_ptr[block_idx_i]: the row of mesh_structure of a pool block
MeshOwnerRow(in, block_idx_i) == in.inv_indices[block_idx_i]

\* lines 514-540: the slot (cell, channel) of mesh_structure that edge i of
\* the cube of a workload is stored in
EdgeSlot(in, workload_idx, i) ==
    LET workload_block_idx == workload_idx \div resolution3
        cv == WorkloadToCoord(workload_idx % resolution3)
        n_blocks == NumRows(in.indices)
        xv_i == cv[1] + edge_shifts[i + 1][1]
        yv_i == cv[2] + edge_shifts[i + 1][2]
        zv_i == cv[3] + edge_shifts[i + 1][3]
        edge_i == edge_shifts[i + 1][4]
        dxb == xv_i \div resolution
        dyb == yv_i \div resolution
        dzb == zv_i \div resolution
        nb_idx == (dxb + 1) + (dyb + 1) * 3 + (dzb + 1) * 9
        block_idx_i == in.nb_indices[nb_idx * n_blocks + workload_block_idx]
    IN  <<CoordToWorkload(xv_i - dxb * resolution, yv_i - dyb * resolution,
                          zv_i - dzb * resolution,
                          MeshOwnerRow(in, block_idx_i)),
          edge_i>>

\* MCPass0 without the returns of the corner loop
MCPass0NoReturn(in, workload_idx) ==
    LET table_idx == TableIdx(in, workload_idx, 0)
    IN  [ret |-> FALSE,
         table_idx |-> table_idx,
         slots |-> IF table_idx = 0 \/ table_idx = 255 THEN {}
                   ELSE {EdgeSlot(in, workload_idx, i) :
                            i \in edge_table(table_idx)}]

\* pass 0 of a workload: whether it returns in the corner loop, the cube
\* case, and the slots it stores -1 to
MCPass0(in, workload_idx) ==
    LET ret == \E i \in Rows(8) : Corner(in, workload_idx, i).ret
        table_idx == IF ret THEN 0 ELSE TableIdx(in, workload_idx, 0)
    IN  [ret |-> ret,
         table_idx |-> table_idx,
         slots |-> IF ret \/ table_idx = 0 \/ table_idx = 255 THEN {}
                   ELSE {EdgeSlot(in, workload_idx, i) :
                            i \in edge_table(table_idx)}]

\* lines 597-600 and 656-742 without the normals: edge e of the voxel of a
\* workload in pass 1, the error messages it prints, the two tsdf values,
\* whether it ends in "tsdf error" and the vertex it stores
MCPass1(in, workload_idx, e) ==
    LET workload_block_idx == workload_idx \div resolution3
        block_idx == in.indices[workload_block_idx]
        cv == WorkloadToCoord(workload_idx % resolution3)
        n_blocks == NumRows(in.indices)
        x == block_keys[block_idx][1] * resolution + cv[1]
        y == block_keys[block_idx][2] * resolution + cv[2]
        z == block_keys[block_idx][3] * resolution + cv[3]
        tsdf_o == in.block_values[
                      CoordToWorkload(cv[1], cv[2], cv[3], block_idx)].tsdf
        xv_e == cv[1] + (IF e = 0 THEN 1 ELSE 0)
        yv_e == cv[2] + (IF e = 1 THEN 1 ELSE 0)
        zv_e == cv[3] + (IF e = 2 THEN 1 ELSE 0)
        dxb == xv_e \div resolution
        dyb == yv_e \div resolution
        dzb == zv_e \div resolution
        nb_idx == (dxb + 1) + (dyb + 1) * 3 + (dzb + 1) * 9
        block_idx_e == in.nb_indices[nb_idx * n_blocks + workload_block_idx]
        workload_voxel_e ==
            CoordToWorkload(xv_e - dxb * resolution, yv_e - dyb * resolution,
                            zv_e - dzb * resolution, block_idx_e)
        tsdf_e == in.block_values[workload_voxel_e].tsdf
        ratio == FDiv(tsdf_e, FSub(tsdf_e, tsdf_o))
        ratio_of(j) == FMul(FSub(One, ratio), FInt(IF e = j THEN 1 ELSE 0))
    IN  [voxel_weight_error |->
             in.block_values[
                 CoordToWorkload(cv[1], cv[2], cv[3], block_idx)].weight = 0,
         block_mask_error |->
             ~in.nb_masks[nb_idx * n_blocks + workload_block_idx],
         weight_error |-> in.block_values[workload_voxel_e].weight = 0,
         tsdf_o |-> tsdf_o,
         tsdf_e |-> tsdf_e,
         tsdf_error |-> FLess(0, FMul(tsdf_e, tsdf_o)),
         vertex |-> <<FMul(in.voxel_size, FAdd(FInt(x), ratio_of(0))),
                      FMul(in.voxel_size, FAdd(FInt(y), ratio_of(1))),
                      FMul(in.voxel_size, FAdd(FInt(z), ratio_of(2)))>>]

\* lines 614-646 and 693-725: sample k of the central difference along
\* axis at the voxel (xv, yv, zv) of the block of a workload: the offset
\* coordinate, the delta block, the mask and block of that neighbour and the
\* cell of the block buffer whose tsdf is read when the mask is true
NormalSample(in, workload_block_idx, xv, yv, zv, axis, k) ==
    LET n_blocks == NumRows(in.indices)
        step == IF k = 1 THEN 1 ELSE -1
        xvs == xv + (IF axis = 0 THEN step ELSE 0)
        yvs == yv + (IF axis = 1 THEN step ELSE 0)
        zvs == zv + (IF axis = 2 THEN step ELSE 0)
        xvs1 == xv + (IF axis = 0 THEN 1 ELSE 0)
        dxbs == IF k = 1 THEN xvs \div resolution
                ELSE IF xvs >= 0 THEN 0 ELSE -1
        dybs == IF k = 1 THEN xvs1 \div resolution
                ELSE IF yvs >= 0 THEN 0 ELSE -1
        dzbs == IF k = 1 THEN zvs \div resolution
                ELSE IF zvs >= 0 THEN 0 ELSE -1
        nb_idx_k == (dxbs + 1) + (dybs + 1) * 3 + (dzbs + 1) * 9
        block_idx_k == in.nb_indices[nb_idx_k * n_blocks + workload_block_idx]
    IN  [axis |-> axis, k |-> k,
         vs |-> <<xvs, yvs, zvs>>,
         dbs |-> <<dxbs, dybs, dzbs>>,
         local |-> <<xvs - dxbs * resolution, yvs - dybs * resolution,
                     zvs - dzbs * resolution>>,
         block_mask_k |-> in.nb_masks[nb_idx_k * n_blocks + workload_block_idx],
         block_idx_k |-> block_idx_k,
         workload_voxel_k |->
             CoordToWorkload(xvs - dxbs * resolution, yvs - dybs * resolution,
                             zvs - dzbs * resolution, block_idx_k)]

\* lines 613-649: the six samples of the normal at the voxel of a workload
OriginNormal(in, workload_idx) ==
    LET cv == WorkloadToCoord(workload_idx % resolution3)
    IN  {NormalSample(in, workload_idx \div resolution3,
                      cv[1], cv[2], cv[3], axis, k) :
            axis \in 0 .. 2, k \in 0 .. 1}

\* lines 656-658 and 692-728: the six samples of the normal at the
\* neighbour of the voxel of a workload along edge e
EdgeNormal(in, workload_idx, e) ==
    LET cv == WorkloadToCoord(workload_idx % resolution3)
        xv_e == cv[1] + (IF e = 0 THEN 1 ELSE 0)
        yv_e == cv[2] + (IF e = 1 THEN 1 ELSE 0)
        zv_e == cv[3] + (IF e = 2 THEN 1 ELSE 0)
    IN  {NormalSample(in, workload_idx \div resolution3,
                      xv_e, yv_e, zv_e, axis, k) :
            axis \in 0 .. 2, k \in 0 .. 1}

\* the workloads workload_idx .. n - 1 of the two launches of a call
RECURSIVE MCWorkloads(_, _)
MCWorkloads(in, workload_idx) ==
    IF workload_idx >= MCN(in) THEN <<>>
    ELSE <<[pass0 |-> MCPass0(in, workload_idx),
            pass1 |-> <<MCPass1(in, workload_idx, 0),
                        MCPass1(in, workload_idx, 1),
                        MCPass1(in, workload_idx, 2)>>,
            n_o |-> OriginNormal(in, workload_idx),
            n_e |-> <<EdgeNormal(in, workload_idx, 0),
                      EdgeNormal(in, workload_idx, 1),
                      EdgeNormal(in, workload_idx, 2)>>]>>
         \o MCWorkloads(in, workload_idx + 1)

\* the modelled calls: their srcs and dsts, and their workloads
MCCalls ==
    Enumerate({[srcs |-> in, capacity |-> VertexCapacity(in),
                workloads |-> MCWorkloads(in, 0)] : in \in MCInput})

\* the call under way
MCCall == MCCalls[m_in]

MCInit ==
    /\ m_in \in DOMAIN MCCalls
    /\ m_pc = [w \in Rows(MCN(MCCall.srcs)) |-> 0]
    /\ mesh_structure = MCCall.srcs.mesh_structure
    /\ m_count = 0
    /\ m_vertices = <<>>
    /\ m_ret = [st |-> "pass0", rows |-> 0]

\* MeshCellOfWorkload with the pool block in place of the row of indices
MeshCellOfWorkloadByBlock(w) ==
    LET cv == WorkloadToCoord(w % resolution3)
    IN  CoordToWorkload(cv[1], cv[2], cv[3],
                        MCCall.srcs.indices[w \div resolution3])

\* mesh_structure_indexer.CoordToWorkload(xv, yv, zv, workload_block_idx):
\* the cell of mesh_structure of the voxel of a workload
MeshCellOfWorkload(w) ==
    LET cv == WorkloadToCoord(w % resolution3)
    IN  CoordToWorkload(cv[1], cv[2], cv[3], w \div resolution3)

\* lines 457-542: workload w of pass 0. A store of -1 through a row
\* inv_indices = -1 falls before the buffer, which is undefined: it lands
\* outside mesh_structure or the launch faults.
MCPass0Workload(w) ==
    /\ m_ret.st = "pass0"
    /\ m_pc[w] = 0
    /\ LET r == MCCall.workloads[w + 1].pass0
       IN  \/ /\ mesh_structure' =
                     IF r.ret THEN mesh_structure
                     ELSE [c \in DOMAIN mesh_structure |->
                              [ch \in 1 .. 4 |->
                                  IF <<c, ch - 1>> \in r.slots THEN -1
                                  ELSE IF c = MeshCellOfWorkload(w) /\ ch = 4
                                  THEN r.table_idx
                                  ELSE mesh_structure[c][ch]]]
              /\ m_pc' = [m_pc EXCEPT ![w] = 3]
              /\ UNCHANGED m_ret
           \/ /\ ~r.ret
              /\ \E slot \in r.slots : slot[1] \notin DOMAIN mesh_structure
              /\ m_ret' = [st |-> "fault", rows |-> 0]
              /\ UNCHANGED <<m_pc, mesh_structure>>
    /\ UNCHANGED <<m_in, m_count, m_vertices>>

\* lines 546-555: pass 0 has finished, count = 0, pass 1 is launched
MCLaunchPass1 ==
    /\ m_ret.st = "pass0"
    /\ \A w \in DOMAIN m_pc : m_pc[w] = 3
    /\ m_pc' = [w \in DOMAIN m_pc |-> 0]
    /\ m_count' = 0
    /\ m_ret' = [st |-> "pass1", rows |-> 0]
    /\ UNCHANGED <<m_in, mesh_structure, m_vertices>>

\* the edges e >= from of a cell whose slot holds -1
OpenEdges(cell, from) == {e \in from .. 2 : mesh_structure[cell][e + 1] = -1}

\* lines 557-752: workload w of pass 1 from edge m_pc[w] up to its next
\* atomicAdd(count_ptr, 1) with the stores of that vertex, or up to its
\* return. A store past the buffer is undefined: it lands behind the buffer
\* or the launch faults.
MCPass1Workload(w) ==
    /\ m_ret.st = "pass1"
    /\ m_pc[w] < 3
    /\ IF OpenEdges(MeshCellOfWorkload(w), m_pc[w]) = {}
       THEN /\ m_pc' = [m_pc EXCEPT ![w] = 3]
            /\ UNCHANGED <<mesh_structure, m_count, m_vertices, m_ret>>
       ELSE LET e == CHOOSE e \in OpenEdges(MeshCellOfWorkload(w), m_pc[w]) :
                        \A o \in OpenEdges(MeshCellOfWorkload(w), m_pc[w]) : e <= o
                r == MCCall.workloads[w + 1].pass1[e + 1]
                idx == m_count
            IN  IF r.tsdf_error
                THEN /\ m_pc' = [m_pc EXCEPT ![w] = 3]
                     /\ UNCHANGED <<mesh_structure, m_count, m_vertices, m_ret>>
                ELSE /\ m_count' = m_count + 1
                     /\ mesh_structure' =
                            [mesh_structure EXCEPT
                                ![MeshCellOfWorkload(w)][e + 1] = idx]
                     /\ \/ /\ m_vertices' = Append(m_vertices,
                                  [row |-> idx, vertex |-> r.vertex,
                                   workload_idx |-> w, e |-> e])
                           /\ m_pc' = [m_pc EXCEPT ![w] =
                                  IF OpenEdges(MeshCellOfWorkload(w), e + 1) = {} THEN 3 ELSE e + 1]
                           /\ UNCHANGED m_ret
                        \/ /\ idx >= MCCall.capacity
                           /\ m_ret' = [st |-> "fault", rows |-> 0]
                           /\ UNCHANGED <<m_pc, m_vertices>>
    /\ UNCHANGED m_in

\* lines 755-760: total_count = count.Item<int>(), vertices and normals
\* sliced to total_count rows
MCReturn ==
    /\ m_ret.st = "pass1"
    /\ \A w \in DOMAIN m_pc : m_pc[w] = 3
    /\ LET total_count == m_count
       IN  \/ m_ret' = [st |-> "returned", rows |-> total_count]
           \/ /\ total_count > MCCall.capacity
              /\ m_ret' \in {[st |-> "returned", rows |-> MCCall.capacity],
                             [st |-> "slice_error", rows |-> 0]}
    /\ UNCHANGED <<m_in, m_pc, mesh_structure, m_count, m_vertices>>

MCIdle ==
    /\ m_in = 0
    /\ m_pc = <<>>
    /\ mesh_structure = <<>>
    /\ m_count = 0
    /\ m_vertices = <<>>
    /\ m_ret = [st |-> "idle", rows |-> 0]

TouchIdle ==
    /\ t_pc = "ready"
    /\ t_in = [points |-> <<>>, voxel_size |-> Scale, resolution |-> 2]
    /\ t_out = [block_coordi |-> <<>>, block_masks |-> <<>>,
                block_coords |-> <<>>]

DispatchIdle == d_pc = "ready" /\ d_in = [op |-> "Debug", srcs |-> {}, dsts |-> {}]
                /\ d_out = NoResult

touch_vars == <<t_pc, t_in, t_out>>
dispatch_vars == <<d_pc, d_in, d_out>>
integrate_vars == <<i_pool0, i_n, i_last, i_same>>
launch_vars == <<l_in, l_pool0, l_pc, l_loc>>
extract_vars == <<e_in, e_pc, e_count, e_points, e_ret>>
mc_vars == <<m_in, m_pc, mesh_structure, m_count, m_vertices, m_ret>>

TouchNext ==
    /\ TSDFTouch
    /\ UNCHANGED <<dispatch_vars, block_values, integrate_vars, launch_vars,
                   extract_vars, mc_vars>>
InitTouch ==
    /\ TouchInit /\ DispatchIdle /\ IntegrateIdle /\ LaunchIdle
    /\ ExtractIdle /\ MCIdle
SpecTouch == InitTouch /\ [][TouchNext]_vars

DispatchNext ==
    /\ GeneralEWCUDA
    /\ UNCHANGED <<touch_vars, block_values, integrate_vars, launch_vars,
                   extract_vars, mc_vars>>
Init ==
    /\ DispatchInit /\ TouchIdle /\ IntegrateIdle /\ LaunchIdle
    /\ ExtractIdle /\ MCIdle
Spec == Init /\ [][DispatchNext]_vars

IntegrateNext ==
    /\ TSDFIntegrate
    /\ UNCHANGED <<touch_vars, dispatch_vars, launch_vars, extract_vars,
                   mc_vars>>
InitIntegrate ==
    /\ IntegrateInit /\ TouchIdle /\ DispatchIdle /\ LaunchIdle
    /\ ExtractIdle /\ MCIdle
SpecIntegrate == InitIntegrate /\ [][IntegrateNext]_vars

LaunchNext ==
    /\ \E w \in DOMAIN l_pc : Load(w) \/ Store(w)
    /\ UNCHANGED <<touch_vars, dispatch_vars, integrate_vars, extract_vars,
                   mc_vars>>
InitLaunch ==
    /\ LaunchInit /\ TouchIdle /\ DispatchIdle /\ ExtractIdle /\ MCIdle
    /\ i_pool0 = block_values /\ i_n = 0 /\ i_last = NoInput /\ i_same = TRUE
SpecLaunch == InitLaunch /\ [][LaunchNext]_vars

ExtractNext ==
    /\ \/ \E w \in DOMAIN e_pc : ExtractSkip(w) \/ ExtractStep(w)
       \/ ExtractReturn
    /\ UNCHANGED <<touch_vars, dispatch_vars, block_values, integrate_vars,
                   launch_vars, mc_vars>>
InitExtract ==
    /\ ExtractInit /\ TouchIdle /\ DispatchIdle /\ IntegrateIdle
    /\ LaunchIdle /\ MCIdle
SpecExtract == InitExtract /\ [][ExtractNext]_vars

MCNext ==
    /\ \/ \E w \in DOMAIN m_pc : MCPass0Workload(w) \/ MCPass1Workload(w)
       \/ MCLaunchPass1
       \/ MCReturn
    /\ UNCHANGED <<touch_vars, dispatch_vars, block_values, integrate_vars,
                   launch_vars, extract_vars>>
InitMC ==
    /\ MCInit /\ TouchIdle /\ DispatchIdle /\ IntegrateIdle /\ LaunchIdle
    /\ ExtractIdle
SpecMC == InitMC /\ [][MCNext]_vars

(***************************************************************************)
(* Claims                                                                  *)
(***************************************************************************)
FloorDiv(a, b) == a \div b
Cube3 == {<<x, y, z>> : x \in {-1, 0, 1}, y \in {-1, 0, 1}, z \in {-1, 0, 1}}

\* C6: TSDFTouch maps every point p to the key floor(p / block_size), for
\* negative coordinates too, so that p lies in the world range
\* [key * block_size, (key + 1) * block_size) of its key.
C6_KeyIsFloorOfPoint ==
    t_pc = "done" =>
        \A i \in DOMAIN t_in.points : \A c \in 1 .. 3 :
            LET p == t_in.points[i][c]
                key == t_out.block_coordi[i][c]
                bs == t_in.voxel_size * t_in.resolution
            IN  /\ key = FloorDiv(p, bs)
                /\ key * bs <= p
                /\ p < (key + 1) * bs

\* C7: TSDFTouch returns 27 * M rows, M the number of distinct block keys;
\* row nb * M + j is key_j + (nb % 3 - 1, (nb % 9) / 3 - 1, nb / 9 - 1), the
\* keys key_j being the distinct keys, each once; the emitted set is the union
\* of key + {-1,0,1}^3, and {-1,0,1}^3 for a single point at the origin.
C7_TouchEmits27Neighbourhood ==
    t_pc = "done" =>
        LET keys == {t_out.block_coordi[i] : i \in DOMAIN t_out.block_coordi}
            M == Cardinality(keys)
            rows == t_out.block_coords
            key(j) == rows[13 * M + j]
            emitted == {rows[r] : r \in DOMAIN rows}
            Plus(k, d) == [c \in 1 .. 3 |-> k[c] + d[c]]
        IN  /\ DOMAIN rows = 0 .. (27 * M - 1)
            /\ {key(j) : j \in 0 .. (M - 1)} = keys
            /\ \A j1, j2 \in 0 .. (M - 1) : key(j1) = key(j2) => j1 = j2
            /\ \A nb \in 0 .. 26 : \A j \in 0 .. (M - 1) :
                  rows[nb * M + j] =
                      Plus(key(j), <<(nb % 3) - 1, ((nb % 9) \div 3) - 1,
                                     (nb \div 9) - 1>>)
            /\ emitted = {Plus(k, d) : k \in keys, d \in Cube3}
            /\ (DOMAIN t_in.points = {0} /\ t_in.points[0] = <<0, 0, 0>>)
                  => emitted = Cube3

\* C7 witness: two points in one block: two rows, one key, 27 rows emitted
C7_Witness ==
    /\ t_pc = "done"
    /\ NumRows(t_in.points) = 2
    /\ t_in.points[0] # t_in.points[1]
    /\ t_out.block_coordi[0] = t_out.block_coordi[1]
    /\ NumRows(t_out.block_coords) = 27

\* C9: when a required key of srcs or dsts is absent, the dispatch ends in a
\* fatal error whose message names the missing key and the dispatched op.
RequiredSrcs(op) == SeqRange(src_attrs(op))
RequiredDsts(op) ==
    IF op = "TSDFIntegrate" THEN {"block_values"}
    ELSE IF op = "MarchingCubes" THEN {"mesh_structure"} ELSE {}
KernelOf(op) ==
    CASE op = "Unproject" -> "CUDAUnprojectKernel"
      [] op = "TSDFTouch" -> "CUDATSDFTouchKernel"
      [] op = "TSDFIntegrate" -> "CUDATSDFIntegrateKernel"
      [] op = "TSDFSurfaceExtraction" -> "CUDASurfaceExtractionKernel"
      [] op = "MarchingCubes" -> "CUDAMarchingCubesKernel"
      [] OTHER -> ""
C9_MissingKeyErrorNamesKeyAndOp ==
    (d_pc = "done" /\ d_in.op \in {"Unproject", "TSDFTouch", "TSDFIntegrate",
                                   "TSDFSurfaceExtraction", "MarchingCubes"}) =>
        LET missing == (RequiredSrcs(d_in.op) \ d_in.srcs)
                         \cup (RequiredDsts(d_in.op) \ d_in.dsts)
        IN  missing # {} =>
                /\ d_out.kind # "ok"
                /\ d_out.key \in missing
                /\ d_out.tag = KernelOf(d_in.op)

\* C1: from a pool whose voxels all have weight 0 and any tsdf, after any
\* sequence of TSDFIntegrate calls every voxel has weight >= 0, and a voxel of
\* positive weight has -1 <= tsdf <= 1.
C1_WeightNonNegTsdfInRange ==
    \A c \in Cells :
        /\ FLeq(0, block_values[c].weight)
        /\ FLess(0, block_values[c].weight) =>
              /\ FLeq(FNeg(One), block_values[c].tsdf)
              /\ FLeq(block_values[c].tsdf, One)

\* the launch of the last call, and the cells its workloads store to
LastLaunch == CHOOSE l \in IntegrateLaunches : l.srcs = i_last
UpdatedCells(l) ==
    {l.workloads[k].workload_voxel :
        k \in {j \in 1 .. Len(l.workloads) : ~l.workloads[j].ret}}

\* after i_n integrations of the frame of LastLaunch: the updated voxels have
\* the tsdf of one integration and weight i_n, the others are untouched
SameAsOnce ==
    LET l == LastLaunch
        once == LaunchIntegrate(i_pool0, l.workloads, 0, Len(l.workloads))
    IN  \A c \in Cells :
            IF c \in UpdatedCells(l)
            THEN /\ block_values[c].tsdf = once[c].tsdf
                 /\ block_values[c].weight = i_n * Scale
            ELSE /\ block_values[c].weight = 0
                 /\ block_values[c] = i_pool0[c]

\* C10 as stated: integrating the same frame, pose and parameters n >= 1
\* times leaves the updated voxels with the tsdf of a single integration and
\* weight n, and the other voxels at weight 0.
C10_SameFrameAnyCount == (i_same /\ i_n >= 1) => SameAsOnce

\* C10: integrating the same frame, pose and parameters once or twice leaves
\* the updated voxels with the tsdf of a single integration and weight 1 or
\* 2, and the other voxels at weight 0.
C10_SameFrameOnceOrTwice == (i_same /\ i_n \in {1, 2}) => SameAsOnce

\* the same frame integrated twice, a voxel of tsdf 7/8 updated, another not
C10_Witness ==
    /\ i_same /\ i_n = 2
    /\ \E c \in UpdatedCells(LastLaunch) :
          /\ block_values[c].tsdf = (7 * Scale) \div 8
          /\ block_values[c].weight = 2 * Scale
    /\ \E c \in Cells : c \notin UpdatedCells(LastLaunch)

\* the (block, voxel) pair a workload of the launch addresses
LaunchPair(w) == <<BlockIdx(Launch.srcs.indices, w), VoxelIdx(w)>>

\* C2: in one launch with duplicate-free indices the workloads address
\* pairwise distinct (block, voxel) pairs, no two workloads load or store the
\* same cell, and whatever the interleaving the pool after the last workload
\* is the pool of the workloads run one after another.
C2_WorkloadsOwnTheirVoxel ==
    LET wl == Launch.workloads
        W == DOMAIN l_pc
    IN  /\ \A w1, w2 \in W : w1 # w2 => LaunchPair(w1) # LaunchPair(w2)
        /\ \A w1, w2 \in W :
              (w1 # w2 /\ ~wl[w1 + 1].ret /\ ~wl[w2 + 1].ret) =>
                  wl[w1 + 1].workload_voxel # wl[w2 + 1].workload_voxel
        /\ (\A w \in W : l_pc[w] = "done") =>
              block_values = LaunchIntegrate(l_pool0, wl, 0, Len(wl))

\* a launch over both blocks finished, a voxel of each block updated from
\* weight 1 to weight 2
C2_Witness ==
    /\ NumRows(Launch.srcs.indices) = NumBlocks
    /\ \A w \in DOMAIN l_pc : l_pc[w] = "done"
    /\ \A b \in Rows(NumBlocks) :
          \E c \in Cells :
              /\ c \div resolution3 = b
              /\ l_pool0[c].weight = One
              /\ block_values[c].weight = 2 * Scale

\* C5: SurfaceExtraction drops the points in excess of the capacity of the
\* points buffer silently: no workload writes a row with index >= capacity,
\* and the returned points array has at most capacity rows.
C5_ExcessPointsDropped ==
    /\ \A j \in DOMAIN e_points : e_points[j].row < ExtractCall.capacity
    /\ e_ret.st \in {"running", "returned"}
    /\ e_ret.rows <= ExtractCall.capacity

\* the world voxel coordinate of the origin voxel of a workload
OriginCoord(in, w) ==
    LET key == block_keys[in.indices[w \div resolution3]]
        cv == WorkloadToCoord(w % resolution3)
    IN  <<key[1] * resolution + cv[1], key[2] * resolution + cv[2],
          key[3] * resolution + cv[3]>>

\* an emitted row is the point of the pair (origin voxel of its workload,
\* +1 neighbour along its axis)
PointOfPair(in, e) ==
    LET k == e.workload_idx \div resolution3
        o == OriginCoord(in, e.workload_idx)
        nbc == [j \in 1 .. 3 |-> IF j = e.i + 1 THEN o[j] + 1 ELSE o[j]]
        keyo == block_keys[in.indices[k]]
        shift == [j \in 1 .. 3 |-> (nbc[j] \div resolution) - keyo[j]]
        vo == in.block_values[WorldCell(o[1], o[2], o[3])]
        vi == in.block_values[WorldCell(nbc[1], nbc[2], nbc[3])]
        ratio == FDiv(vi.tsdf, FSub(vi.tsdf, vo.tsdf))
    IN  /\ in.nb_masks[NbOf(shift) * NumRows(in.indices) + k]
        /\ BlockOfKey(KeyPlus(keyo, shift)) # -1
        /\ FLess(0, vo.weight) /\ FLess(0, vi.weight)
        /\ IsFinite(vo.tsdf) /\ IsFinite(vi.tsdf)
        /\ vo.tsdf * vi.tsdf < 0
        /\ FLeq(0, ratio) /\ FLeq(ratio, One)
        /\ \A j \in 1 .. 3 :
              e.point[j] = FMul(in.voxel_size,
                                IF j = e.i + 1 THEN FAdd(FInt(o[j]), ratio)
                                ELSE FInt(o[j]))

\* C8: every point SurfaceExtraction emits is the point of a pair (origin
\* voxel, +1 neighbour along an axis, in the adjacent block where the pair
\* crosses a seam) whose neighbour block is not masked out, whose voxels both
\* have positive weight and tsdf of opposite sign; the point is voxel_size *
\* (origin + ratio * axis) with ratio = tsdf_i / (tsdf_i - tsdf_o) in [0, 1].
C8_PointsLieOnSignChanges ==
    \A j \in DOMAIN e_points : PointOfPair(ExtractCall.srcs, e_points[j])

\* a call over both blocks returned one point, of the pair across the seam
C8_Witness ==
    /\ e_ret = [st |-> "returned", rows |-> 1]
    /\ NumRows(ExtractCall.srcs.indices) = NumBlocks
    /\ e_points[1].i = 0
    /\ OriginCoord(ExtractCall.srcs, e_points[1].workload_idx) = <<resolution - 1, 0, 0>>
    /\ e_points[1].point[1] =
          FMul(ExtractCall.srcs.voxel_size, FInt(resolution - 1) + (3 * Scale) \div 4)

\* the edge slots (cell, channel) of mesh_structure, and what a slot holds
Slots == {<<c, e>> : c \in DOMAIN mesh_structure, e \in 0 .. 2}
SlotValue(slot) == mesh_structure[slot[1]][slot[2] + 1]

\* a voxel given by its world voxel coordinate: its block is allocated for
\* the call and its weight is not 0; its tsdf is < 0
Observed(in, v) ==
    LET b == BlockOfKey(<<v[1] \div resolution, v[2] \div resolution,
                          v[3] \div resolution>>)
    IN  /\ b # -1
        /\ \E j \in DOMAIN in.nb_masks : in.nb_masks[j] /\ in.nb_indices[j] = b
        /\ in.block_values[WorldCell(v[1], v[2], v[3])].weight # 0
Negative(in, v) == FLess(in.block_values[WorldCell(v[1], v[2], v[3])].tsdf, 0)

\* the grid edges of the cube at c: (lower end, axis)
CubeEdges(c) ==
    {<<KeyPlus(c, ed[1]), ed[2]>> :
        ed \in {ed \in ({0, 1} \X {0, 1} \X {0, 1}) \X (0 .. 2) :
                   ed[1][ed[2] + 1] = 0}}

\* the slot of a grid edge: channel = axis, in the cell of its lower end
SlotOfEdge(in, edge) ==
    LET v == edge[1]
        b == BlockOfKey(<<v[1] \div resolution, v[2] \div resolution,
                          v[3] \div resolution>>)
    IN  <<CoordToWorkload(v[1] % resolution, v[2] % resolution,
                          v[3] % resolution,
                          CHOOSE k \in DOMAIN in.indices : in.indices[k] = b),
          edge[2]>>

\* the slots of the grid edges that pass 0 has to mark: the edges of a cube
\* of a selected voxel with all 8 corners observed, whose ends differ in sign
MarkedSlots(in) ==
    LET cubes == {c \in {OriginCoord(in, w) : w \in Rows(MCN(in))} :
                     \A d \in {0, 1} \X {0, 1} \X {0, 1} :
                         Observed(in, KeyPlus(c, d))}
        unit(a) == [j \in 1 .. 3 |-> IF j = a + 1 THEN 1 ELSE 0]
    IN  {SlotOfEdge(in, edge) :
            edge \in {ed \in UNION {CubeEdges(c) : c \in cubes} :
                         Negative(in, ed[1]) #
                         Negative(in, KeyPlus(ed[1], unit(ed[2])))}}

RECURSIVE MarkedSlotsFrom(_)
MarkedSlotsFrom(i) ==
    IF i > Len(MCCalls) THEN <<>>
    ELSE <<MarkedSlots(MCCalls[i].srcs)>> \o MarkedSlotsFrom(i + 1)

\* MarkedSlots of every modelled call
MCMarkedSlots == MarkedSlotsFrom(1)

\* no edge slot holds -1 before pass 0
NoSlotOpenBefore ==
    \A c \in DOMAIN MCCall.srcs.mesh_structure, ch \in 1 .. 3 :
        MCCall.srcs.mesh_structure[c][ch] # -1

\* C3: when no edge slot holds -1 before pass 0 and pass 1 starts after pass
\* 0 has finished, under every interleaving the slots holding -1 are slots of
\* marked edges only, every vertex id is stored once, in the slot of a marked
\* edge, the ids handed out are 0 .. count - 1 in the order of allocation,
\* and at the return every marked edge has its id and count is the number of
\* marked edges.
C3_EveryMarkedEdgeGetsOneId ==
    NoSlotOpenBefore =>
        LET marked == MCMarkedSlots[m_in]
            ids == 0 .. (m_count - 1)
        IN  /\ m_ret.st \in {"pass0", "pass1", "returned"}
            /\ \A s \in Slots :
                  IF s \in marked
                  THEN \/ SlotValue(s) = -1
                       \/ m_ret.st = "pass0" /\ SlotValue(s) =
                             MCCall.srcs.mesh_structure[s[1]][s[2] + 1]
                       \/ m_ret.st # "pass0" /\ SlotValue(s) \in ids
                  ELSE SlotValue(s) = MCCall.srcs.mesh_structure[s[1]][s[2] + 1]
            /\ Len(m_vertices) = m_count
            /\ \A j \in DOMAIN m_vertices :
                  LET s == <<MeshCellOfWorkload(m_vertices[j].workload_idx),
                             m_vertices[j].e>>
                  IN  /\ m_vertices[j].row = j - 1
                      /\ s \in marked
                      /\ SlotValue(s) = j - 1
            /\ m_ret.st = "returned" =>
                  /\ \A s \in marked : SlotValue(s) \in ids
                  /\ m_count = Cardinality(marked)
                  /\ m_ret.rows = m_count

\* a call over both blocks returned 4 vertices; the edge across the seam got
\* id 2, between the ids of the edges of the first voxel of the higher block
C3_Witness ==
    /\ m_ret = [st |-> "returned", rows |-> 4]
    /\ NumRows(MCCall.srcs.indices) = NumBlocks
    /\ NoSlotOpenBefore
    /\ SlotValue(SlotOfEdge(MCCall.srcs, <<<<resolution - 1, 0, 0>>, 0>>)) = 2
    /\ SlotValue(SlotOfEdge(MCCall.srcs, <<<<resolution, 0, 0>>, 1>>)) \in {0, 1, 3}

\* C4: when a MarchingCubes call returns, vertices and normals have count
\* rows, and every edge slot of mesh_structure that does not hold -1 holds an
\* id in [0, count) that no other edge slot holds, whatever mesh_structure
\* held before the call.
C4_SlotsHoldUniqueIds ==
    m_ret.st = "returned" =>
        /\ m_ret.rows = m_count
        /\ \A s \in Slots :
              SlotValue(s) # -1 =>
                  /\ SlotValue(s) \in 0 .. (m_count - 1)
                  /\ \A o \in Slots \ {s} : SlotValue(o) # SlotValue(s)

\* the voxel of a cell under a frame: it projects into the image, and its
\* depth sample, its camera depth and its sdf pass the tests of the kernel
VoxelIntegrated(in, c) ==
    LET key == block_keys[c \div resolution3]
        cv == WorkloadToCoord(c % resolution3)
        cam == RigidTransform(in, key[1] * resolution + cv[1],
                              key[2] * resolution + cv[2],
                              key[3] * resolution + cv[3])
        uv == Project(in, cam[1], cam[2], cam[3])
        depth == FDiv(in.depth[ImageCoordToWorkload(ToInt64(uv[1]),
                                                    ToInt64(uv[2]))],
                      in.depth_scale)
    IN  /\ InBoundary(uv[1], uv[2])
        /\ ~FLeq(depth, 0)
        /\ ~FLeq(cam[3], 0)
        /\ ~FLess(FSub(depth, cam[3]), FNeg(in.sdf_trunc))

\* what one call may change
OnlyIntegratedVoxelsChange ==
    /\ \A c \in Cells :
          block_values'[c] # block_values[c] =>
              /\ \E k \in DOMAIN i_last'.indices :
                    i_last'.indices[k] = c \div resolution3
              /\ VoxelIntegrated(i_last', c)
    /\ (\A p \in DOMAIN i_last'.depth : i_last'.depth[p] = 0) =>
          block_values' = block_values

\* C11: a call of TSDFIntegrate changes only cells of voxels that lie in a
\* block listed in indices, project into the image and have depth > 0 or
\* NaN, zc > 0 and sdf >= -sdf_trunc; a frame whose depths are all 0 changes
\* nothing.
C11_OnlyPassingVoxelsWritten == [][OnlyIntegratedVoxelsChange]_vars

\* after a call over block 0 alone: a voxel of block 0 was written, another
\* voxel of block 0 and all of block 1 were not
C11_Witness ==
    /\ i_n = 1
    /\ DOMAIN i_last.indices = {0} /\ i_last.indices[0] = 0
    /\ \E c \in Rows(resolution3) : block_values[c] # i_pool0[c]
    /\ \E c \in Rows(resolution3) :
          block_values[c] = i_pool0[c] /\ ~VoxelIntegrated(i_last, c)
    /\ \A c \in Cells : c >= resolution3 => block_values[c] = i_pool0[c]

\* the x coordinate of the block a world voxel lies in
BlockXOf(v) == v[1] \div resolution

\* the cubes of the call with all 8 corners observed
ValidCubes(in) ==
    {c \in {OriginCoord(in, w) : w \in Rows(MCN(in))} :
        \A d \in {0, 1} \X {0, 1} \X {0, 1} : Observed(in, KeyPlus(c, d))}

\* the sign-changing grid edges shared by a cube of the lower block and a
\* cube of the adjacent higher block
SeamEdges(in) ==
    LET unit(a) == [j \in 1 .. 3 |-> IF j = a + 1 THEN 1 ELSE 0]
    IN  {ed \in UNION {CubeEdges(c) \cap CubeEdges(h) :
                          c \in {c \in ValidCubes(in) : BlockXOf(c) = 0},
                          h \in {h \in ValidCubes(in) : BlockXOf(h) = 1}} :
            Negative(in, ed[1]) # Negative(in, KeyPlus(ed[1], unit(ed[2])))}

\* the rows of the vertices allocated for a grid edge
VerticesOfEdge(in, ed) ==
    {j \in DOMAIN m_vertices :
        <<OriginCoord(in, m_vertices[j].workload_idx), m_vertices[j].e>> = ed}

\* every seam edge has one vertex, its id is in the slot of the voxel at the
\* lower end of the edge, and that voxel lies in the block at x = blockx
SeamEdgesStoredIn(blockx) ==
    \A ed \in SeamEdges(MCCall.srcs) :
        /\ Cardinality(VerticesOfEdge(MCCall.srcs, ed)) = 1
        /\ \A j \in VerticesOfEdge(MCCall.srcs, ed) :
              SlotValue(SlotOfEdge(MCCall.srcs, ed)) = m_vertices[j].row
        /\ block_keys[MCCall.srcs.indices[
               SlotOfEdge(MCCall.srcs, ed)[1] \div resolution3]][1] = blockx

SampleAddressed(in, workload_block_idx, s) ==
    LET key == block_keys[in.indices[workload_block_idx]]
    IN  /\ \A j \in 1 .. 3 :
              /\ s.dbs[j] = FloorDiv(s.vs[j], resolution)
              /\ s.local[j] \in Rows(resolution)
        /\ s.block_mask_k =>
              s.workload_voxel_k =
                  WorldCell(key[1] * resolution + s.vs[1],
                            key[2] * resolution + s.vs[2],
                            key[3] * resolution + s.vs[3])

\* C13: every sample of the normals computed for a vertex of pass 1, at the
\* origin voxel and at its +1 neighbour along the edge, is the voxel one step
\* along the axis: neighbour block floor(coord / R), block-local coordinates
\* in [0, R), the cell of that world voxel read unless its block is masked.
C13_NormalSamplesAddressed ==
    \A j \in DOMAIN m_vertices :
        LET w == m_vertices[j].workload_idx
            t == MCCall.workloads[w + 1]
        IN  \A s \in t.n_o \cup t.n_e[m_vertices[j].e + 1] :
                SampleAddressed(MCCall.srcs, w \div resolution3, s)

\* the slots holding -1 once pass 1 is launched, none of them older than
\* pass 0
OpenSlotsOfPass1 ==
    IF m_ret.st = "pass1" /\ NoSlotOpenBefore
    THEN {s \in Slots : SlotValue(s) = -1}
    ELSE {}

\* the edge of pass 1 that reads slot s: edge s[2] of the workload of cell
\* s[1]
EdgeOfSlot(s) == MCCall.workloads[s[1] + 1].pass1[s[2] + 1]

\* C14: with no -1 in mesh_structure before pass 0, every slot holding -1 in
\* pass 1 belongs to a voxel of nonzero weight whose +1 neighbour along the
\* edge is in a block with nb_mask true, has nonzero weight and has
\* tsdf_e * tsdf_o <= 0 with tsdf_e # tsdf_o, so that no error branch is
\* taken.
C14_OpenSlotsAreSignChanges ==
    \A s \in OpenSlotsOfPass1 :
        LET r == EdgeOfSlot(s)
        IN  /\ ~r.voxel_weight_error
            /\ ~r.block_mask_error
            /\ ~r.weight_error
            /\ FLeq(FMul(r.tsdf_e, r.tsdf_o), 0)
            /\ r.tsdf_e # r.tsdf_o
            /\ ~r.tsdf_error

\* the workloads of pass 0 that store -1 to a slot
MarkersOf(slot) ==
    {w \in Rows(MCN(MCCall.srcs)) :
        /\ ~MCCall.workloads[w + 1].pass0.ret
        /\ slot \in MCCall.workloads[w + 1].pass0.slots}

\* mesh_structure after pass 0 as a function of the inputs of the call
MeshAfterPass0 ==
    [c \in DOMAIN MCCall.srcs.mesh_structure |->
        [ch \in 1 .. 4 |->
            IF ch < 4 /\ MarkersOf(<<c, ch - 1>>) # {} THEN -1
            ELSE IF ch = 4 /\ ~MCCall.workloads[c + 1].pass0.ret
            THEN MCCall.workloads[c + 1].pass0.table_idx
            ELSE MCCall.srcs.mesh_structure[c][ch]]]

\* a step of pass 0 changes channel 3 of the cell of the acting workload
\* only, whose cube has its 8 corners observed, and changes an edge channel
\* to -1 only; the launch of pass 1 finds mesh_structure as MeshAfterPass0
Pass0StepIsOrderFree ==
    m_ret.st = "pass0" =>
        /\ \A c \in DOMAIN mesh_structure, ch \in 1 .. 4 :
              mesh_structure'[c][ch] # mesh_structure[c][ch] =>
                  IF ch = 4
                  THEN /\ m_pc[c] = 0 /\ m_pc'[c] = 3
                       /\ OriginCoord(MCCall.srcs, c) \in ValidCubes(MCCall.srcs)
                  ELSE mesh_structure'[c][ch] = -1
        /\ m_ret'.st = "pass1" => mesh_structure = MeshAfterPass0

\* C15: the content of mesh_structure after pass 0 is the same under every
\* interleaving of its workloads: channel 3 of a cell is written by the
\* workload of that cell only, and only when the 8 corners of its cube are in
\* allocated blocks with nonzero weight, and every write to the channels 0..2
\* stores -1.
C15_Pass0OrderIndependent == [][Pass0StepIsOrderFree]_vars

\* pass 1 is launched over two blocks after two workloads of pass 0 stored
\* -1 to the same slot
C15_Witness ==
    /\ m_ret.st = "pass1"
    /\ m_count = 0
    /\ NumRows(MCCall.srcs.indices) = NumBlocks
    /\ \E s \in Slots : SlotValue(s) = -1 /\ Cardinality(MarkersOf(s)) >= 2
    /\ \E c \in DOMAIN mesh_structure :
          mesh_structure[c][4] # MCCall.srcs.mesh_structure[c][4]

\* the (workload, axis) pairs of the call that emit a point
QualifyingPairs ==
    {p \in Rows(ExtractN(ExtractCall.srcs)) \X (0 .. 2) :
        /\ ~ExtractCall.workloads[p[1] + 1].unobserved
        /\ ExtractCall.workloads[p[1] + 1].axes[p[2] + 1].emit}

\* the stores of row r
WritesOfRow(r) == {j \in DOMAIN e_points : e_points[j].row = r}

\* C16: while the capacity is not exceeded, under every interleaving each
\* qualifying (voxel, axis) pair reserves a row no other pair reserves and
\* every row below the counter is written once; at the return the count is
\* the number of qualifying pairs and the set of points is that of the
\* qualifying pairs, whatever the order.
C16_RowsReservedOnce ==
    (e_ret.st \in {"running", "returned"} /\ e_count <= ExtractCall.capacity) =>
        /\ \A r \in Rows(e_count) : Cardinality(WritesOfRow(r)) = 1
        /\ \A j \in DOMAIN e_points :
              /\ e_points[j].row \in Rows(e_count)
              /\ <<e_points[j].workload_idx, e_points[j].i>> \in QualifyingPairs
              /\ \A k \in DOMAIN e_points :
                    (e_points[k].workload_idx = e_points[j].workload_idx
                       /\ e_points[k].i = e_points[j].i) => k = j
        /\ e_ret.st = "returned" =>
              /\ e_ret.rows = Cardinality(QualifyingPairs)
              /\ e_count = Cardinality(QualifyingPairs)
              /\ {e_points[j].point : j \in DOMAIN e_points} =
                     {ExtractCall.workloads[p[1] + 1].axes[p[2] + 1].point :
                         p \in QualifyingPairs}

\* a call returned within the capacity whose rows are not in the order of
\* the workloads
C16_Witness ==
    /\ e_ret.st = "returned"
    /\ e_count <= ExtractCall.capacity
    /\ e_count >= 2
    /\ \E j, k \in DOMAIN e_points :
          /\ e_points[j].row < e_points[k].row
          /\ e_points[j].workload_idx > e_points[k].workload_idx

\* the zero of the linear interpolant of the tsdf along the edge from the
\* world voxel o along axis: voxel_size * (o + tsdf_o / (tsdf_o - tsdf_e))
ZeroOfEdge(in, o, axis) ==
    LET nbc == [j \in 1 .. 3 |-> IF j = axis + 1 THEN o[j] + 1 ELSE o[j]]
        tsdf_o == in.block_values[WorldCell(o[1], o[2], o[3])].tsdf
        tsdf_e == in.block_values[WorldCell(nbc[1], nbc[2], nbc[3])].tsdf
        t == FDiv(tsdf_o, FSub(tsdf_o, tsdf_e))
    IN  [j \in 1 .. 3 |->
            FMul(in.voxel_size,
                 IF j = axis + 1 THEN FAdd(FInt(o[j]), t) ELSE FInt(o[j]))]

\* C17: for an edge between an origin voxel and its +1 neighbour along an
\* axis, the point SurfaceExtraction emits and the vertex MarchingCubes pass
\* 1 emits over the same srcs are the same position, the zero of the linear
\* interpolant of the tsdf along the edge, tsdf_o / (tsdf_o - tsdf_e) voxels
\* from the origin voxel, scaled by voxel_size.
C17_PointAndVertexAtZero ==
    \A j \in DOMAIN m_vertices :
        LET w == m_vertices[j].workload_idx
            e == m_vertices[j].e
            p == ExtractAxis(MCCall.srcs, w, e)
        IN  (ExtractOrigin(MCCall.srcs, w).weight_o # 0 /\ p.emit) =>
                /\ p.point = m_vertices[j].vertex
                /\ p.point = ZeroOfEdge(MCCall.srcs,
                                        OriginCoord(MCCall.srcs, w), e)

====
